---- MODULE Spec2Model ----
(***************************************************************************)
(* The weekly chore allocation of chore-master (src/src/App.tsx): the      *)
(* `weeks` useMemo of App, stepped one loop iteration at a time, together  *)
(* with the cadence helper occurrencesInWeek.                              *)
(***************************************************************************)
EXTENDS Integers, Sequences, FiniteSets, TLC

VARIABLES
    people,        \* roster state: sequence of person names
    chores,        \* catalog state: sequence of Chore records
    minChores, maxChores, avoidRepeats, noDupPerWeek, cycleWeeks,
    pc,            \* position inside the useMemo callback
    w,             \* week index of the outer for loop
    week,          \* the WeekAssignment under construction
    jobs,          \* individual occurrences of the week
    quarterly,     \* group occurrences of the week
    qi, pi,        \* positions of the two nested group loops
    ji,            \* position of the greedy loop
    lastAssignee,  \* chore id -> last greedy/group assignee
    changed, guard,\* repair loop control
    result,        \* WeekAssignment[] being built / returned
    outcome,       \* how the call ended
    people0, chores0, \* the snapshots handed to the call (history)
    eligibleLog,   \* history: <<week number, chore id>> placed while another person was eligible
    prevResult,    \* history: result of the previous computation on the same snapshots
    lastOp,        \* history: the last catalog operation of the Edit Chores tab
    steps,         \* number of catalog operations or database changes so far
    db,            \* Supabase variant: the rows of the chores table
    inflight,      \* Supabase variant: the selects sent, those applied marked done
    settings,      \* Supabase variant: the settings state, no row while it is null
    error,         \* Supabase variant: the error state, Undefined while it is null
    refs,          \* which arrays the people and chores states hold (Object.is)
    cycleStart,    \* settings state: first day of the cycle
    storage,       \* the localStorage item of the app
    loaded,        \* the loaded state of App
    rendered,      \* what the last render of App saw: the closure of its effects
    effects,       \* the effects of the last commit that have not run yet
    firstWrite     \* history: the first setItem, with the item it replaced

vars == <<people, chores, minChores, maxChores, avoidRepeats, noDupPerWeek,
          cycleWeeks, pc, w, week, jobs, quarterly, qi, pi, ji, lastAssignee,
          changed, guard, result, outcome, people0, chores0, eligibleLog,
          prevResult, lastOp, steps, db, inflight, settings, error, refs,
          cycleStart, storage, loaded, rendered, effects, firstWrite>>

\* the state outside the weeks callback
shell == <<lastOp, steps, db, inflight, settings, error, refs, cycleStart,
           storage, loaded, rendered, effects, firstWrite>>

inputs == <<minChores, maxChores, avoidRepeats, noDupPerWeek, cycleWeeks,
            people0, chores0>>

(* ------------------------------ bounds --------------------------------- *)
MaxPeople == 2
MaxPolicy == 2
MaxWeight == 2
MaxWeekIndex == 24
MaxEdits == 2
MaxChanges == 2

(* --------------------------- program constants ------------------------- *)
RepairCap == 100

\* lastAssignee[id] of a chore that has no entry: undefined; an entry is kept
\* apart from it whatever the name is
Undefined == <<>>
Recorded(name) == <<name>>

\* the truthiness of a lastAssignee value: undefined and "" are falsy
Truthy(v) == v # Undefined /\ v # Recorded("")

\* a % b of JavaScript for b > 0: the sign follows the dividend
JsRem(a, b) == IF a >= 0 THEN a % b ELSE 0 - ((0 - a) % b)
NoResult  == "no previous result"

FreqKeys == {"weekly", "twice_week", "every_2_weeks", "monthly", "quarterly"}

(* ------------------------------ helpers -------------------------------- *)
Range(s) == {s[i] : i \in 1..Len(s)}

RECURSIVE SumWeights(_)
SumWeights(s) == IF s = <<>> THEN 0 ELSE Head(s).weight + SumWeights(Tail(s))

Max2(a, b) == IF a >= b THEN a ELSE b

(* ------------------------------- inputs -------------------------------- *)
RosterNames == <<"Alice", "Bob", "Cara", "Dan", "Eve", "Finn">>

\* rosters of distinct names, the empty roster included
Rosters == {SubSeq(RosterNames, 1, n) : n \in 0..MaxPeople}

ChoreNames == <<"Dusting", "Coffee table", "Side tables", "Wipe counters",
                "Clean sink", "Organizing fridge", "Wipe washer & dryer",
                "Clean cat food bowls", "Sweep stairs", "Clean windows">>
ChoreAreas == <<"Living Room", "Living Room", "Living Room", "Kitchen",
                "Kitchen", "Kitchen", "Laundry Room", "Laundry Room",
                "Stairs", "All Rooms">>

Chore(id, freq, weight) ==
    [id |-> id, name |-> ChoreNames[id], area |-> ChoreAreas[id],
     weight |-> weight, freq |-> freq]

Weights == 1..MaxWeight

\* the cycle lengths of the small scenarios
CycleLengths == {1, 2}

SingleCatalogs == {<<Chore(1, f, x)>> : f \in FreqKeys, x \in Weights}

\* the weights of the two-chore catalogs: equal, or the first chore heavier
PairWeights == {<<1, 1>>, <<2, 1>>}

PairCatalogs ==
    {<<Chore(1, f[1], x[1]), Chore(2, f[2], x[2])>> :
        f \in FreqKeys \X FreqKeys, x \in PairWeights}

\* the example of the specification: two weekly chores and a quarterly one
CatExample == <<Chore(1, "weekly", 2), Chore(2, "weekly", 3), Chore(3, "quarterly", 4)>>

\* two weekly chores and one that is due in week 0 only, all of one weight
CatTies == <<Chore(1, "weekly", 1), Chore(2, "weekly", 1), Chore(3, "every_2_weeks", 1)>>

\* a twice-weekly chore between two weekly ones, and a quarterly group chore
CatTwice == <<Chore(1, "weekly", 2), Chore(2, "twice_week", 2), Chore(3, "weekly", 2),
              Chore(4, "quarterly", 1)>>

\* more quarterly chores than a small maximum allows
CatGroup == <<Chore(1, "quarterly", 2), Chore(2, "quarterly", 1), Chore(3, "weekly", 1)>>

\* four weekly chores and four that are due in week 0 only
CatSwing == <<Chore(1, "weekly", 5), Chore(2, "every_2_weeks", 4),
              Chore(3, "every_2_weeks", 4), Chore(4, "weekly", 3),
              Chore(5, "weekly", 3), Chore(6, "every_2_weeks", 2),
              Chore(7, "every_2_weeks", 2), Chore(8, "weekly", 1)>>

\* a heavy chore and three light ones
CatLight == <<Chore(1, "weekly", 3), Chore(2, "weekly", 1), Chore(3, "weekly", 1),
              Chore(4, "weekly", 1)>>

\* CatTwice with a monthly chore, due in week 0, in place of the first weekly one
CatMonth == <<Chore(1, "monthly", 2), Chore(2, "twice_week", 2), Chore(3, "weekly", 2),
              Chore(4, "quarterly", 1)>>

FixtureCatalogs == {CatExample, CatTies, CatTwice, CatGroup, CatSwing, CatLight, CatMonth}

\* <<minChores, maxChores>> pairs the fixtures are run under
FixturePolicies == {<<1, 2>>, <<1, 1>>, <<2, 1>>, <<2, 3>>, <<2, 4>>, <<3, 4>>}

Scenario(ps, cs, lo, hi, ar, nd, cw) ==
    [people |-> ps, chores |-> cs, minChores |-> lo, maxChores |-> hi,
     avoidRepeats |-> ar, noDupPerWeek |-> nd, cycleWeeks |-> cw]

\* the empty catalog and the catalogs of one chore under every small policy,
\* the empty roster included
SingleScenarios ==
    {Scenario(ps, cs, lo, hi, ar, nd, cw) :
        ps \in Rosters,
        cs \in {<<>>} \cup SingleCatalogs,
        lo \in 0..MaxPolicy, hi \in 0..MaxPolicy,
        ar \in BOOLEAN, nd \in BOOLEAN, cw \in CycleLengths}

\* <<minChores, maxChores>> pairs the two-chore catalogs are run under
PairPolicies == {0, 1, 2} \X {0, 1, 2}

\* the rosters the two-chore catalogs are run with: none, one or two people
PairRosters == {SubSeq(RosterNames, 1, n) : n \in 0..2}

\* the catalogs of two chores, the empty roster included
PairScenarios ==
    {Scenario(ps, cs, pol[1], pol[2], ar, nd, cw) :
        ps \in PairRosters,
        cs \in PairCatalogs,
        pol \in PairPolicies,
        ar \in BOOLEAN, nd \in BOOLEAN, cw \in CycleLengths}

SmallScenarios == SingleScenarios \cup PairScenarios

\* the fixtures, for two housemates over two weeks
FixtureScenarios ==
    {Scenario(<<"Alice", "Bob">>, cs, pol[1], pol[2], ar, nd, cw) :
        cs \in FixtureCatalogs,
        pol \in FixturePolicies,
        ar \in BOOLEAN, nd \in BOOLEAN, cw \in CycleLengths}

\* the example scenario of the specification
ExampleScenarios ==
    {Scenario(<<"Alice", "Bob", "Cara">>, CatExample, 1, 2, ar, nd, 4) :
        ar \in BOOLEAN, nd \in BOOLEAN}

\* two monthly chores due in weeks 0 and 4, two fortnightly ones, a weekly one and
\* two monthly ones due in week 2: by week 4 one person can be the last assignee
\* of everything that is due
CatDonors == <<Chore(1, "monthly", 2), Chore(2, "weekly", 1), Chore(3, "monthly", 5),
               Chore(4, "every_2_weeks", 4), Chore(5, "monthly", 1),
               Chore(6, "every_2_weeks", 3), Chore(7, "monthly", 5)>>

\* three housemates over five weeks, with repeat avoidance
DonorScenarios ==
    {Scenario(<<"Alice", "Bob", "Cara">>, CatDonors, 1, 3, TRUE, TRUE, 5)}

Scenarios == SmallScenarios \cup FixtureScenarios \cup ExampleScenarios

\* the cadence values a stored catalog can carry: the FreqKey values and one
\* that is none of them
CadenceValues == FreqKeys \cup {"daily"}

\* one chore of every cadence value, the unknown one included
CatCadence == <<Chore(1, "weekly", 1), Chore(2, "twice_week", 1),
                Chore(3, "every_2_weeks", 1), Chore(4, "monthly", 1),
                Chore(5, "quarterly", 1), Chore(6, "daily", 1)>>

\* monthly chores behind other chores, as in DEFAULT_CHORES
CatMonthlies == <<Chore(1, "weekly", 1), Chore(2, "monthly", 1), Chore(3, "monthly", 1),
                  Chore(4, "quarterly", 1), Chore(5, "monthly", 1), Chore(6, "monthly", 1),
                  Chore(7, "monthly", 1)>>

\* every id with every cadence value, and the two catalogs above
CadenceCatalogs ==
    {<<Chore(id, f, 1)>> : id \in DOMAIN ChoreNames, f \in CadenceValues}
        \cup {CatCadence, CatMonthlies}

(* ---------- Frequency helpers ---------- *)
\* a cadence helper whose monthly offset is not reduced modulo 4
occurrencesInWeekNoWrap(chore, widx) ==
    CASE chore.freq = "weekly"        -> 1
      [] chore.freq = "twice_week"    -> 2
      [] chore.freq = "every_2_weeks" -> IF JsRem(widx, 2) = 0 THEN 1 ELSE 0
      [] chore.freq = "monthly"       ->
            LET off == chore.id - 1
            IN  IF JsRem(widx, 4) = off THEN 1 ELSE 0
      [] chore.freq = "quarterly"     ->
            LET block == widx \div 4
                isQuarterBlock == (JsRem(block, 3) = 0)
                isGroupWeek == (JsRem(widx, 4) = 0)
            IN  IF isQuarterBlock /\ isGroupWeek THEN 1 ELSE 0
      [] OTHER -> 0

\* a cadence helper that treats an unknown cadence as weekly
occurrencesInWeekOpenDefault(chore, widx) ==
    CASE chore.freq = "weekly"        -> 1
      [] chore.freq = "twice_week"    -> 2
      [] chore.freq = "every_2_weeks" -> IF JsRem(widx, 2) = 0 THEN 1 ELSE 0
      [] chore.freq = "monthly"       ->
            LET off == JsRem(chore.id - 1, 4)
            IN  IF JsRem(widx, 4) = off THEN 1 ELSE 0
      [] chore.freq = "quarterly"     ->
            LET block == widx \div 4
                isQuarterBlock == (JsRem(block, 3) = 0)
                isGroupWeek == (JsRem(widx, 4) = 0)
            IN  IF isQuarterBlock /\ isGroupWeek THEN 1 ELSE 0
      [] OTHER -> 1

\* a cadence helper of the shortened model: quarterly chores in every fourth week
occurrencesInWeekEveryFourth(chore, widx) ==
    CASE chore.freq = "weekly"        -> 1
      [] chore.freq = "twice_week"    -> 2
      [] chore.freq = "every_2_weeks" -> IF JsRem(widx, 2) = 0 THEN 1 ELSE 0
      [] chore.freq = "monthly"       ->
            LET off == JsRem(chore.id - 1, 4)
            IN  IF JsRem(widx, 4) = off THEN 1 ELSE 0
      [] chore.freq = "quarterly"     ->
            LET isGroupWeek == (JsRem(widx, 4) = 0)
            IN  IF isGroupWeek THEN 1 ELSE 0
      [] OTHER -> 0

\* lines 137-155
occurrencesInWeek(chore, widx) ==
    CASE chore.freq = "weekly"        -> 1
      [] chore.freq = "twice_week"    -> 2
      [] chore.freq = "every_2_weeks" -> IF JsRem(widx, 2) = 0 THEN 1 ELSE 0
      [] chore.freq = "monthly"       ->
            LET off == JsRem(chore.id - 1, 4)
            IN  IF JsRem(widx, 4) = off THEN 1 ELSE 0
      [] chore.freq = "quarterly"     ->
            LET block == widx \div 4
                isQuarterBlock == (JsRem(block, 3) = 0)
                isGroupWeek == (JsRem(widx, 4) = 0)
            IN  IF isQuarterBlock /\ isGroupWeek THEN 1 ELSE 0
      [] OTHER -> 0

(* ---------- Assignment core ---------- *)
P == [i \in 1..Len(people) |-> people[i]]

PSet == Range(P)

ChoreIds == {chores[i].id : i \in 1..Len(chores)}

Job(c) == [choreId |-> c.id, choreName |-> c.name, area |-> c.area,
           weight |-> c.weight, isQuarterly |-> (c.freq = "quarterly")]

RECURSIVE Repeat(_, _)
Repeat(x, n) == IF n <= 0 THEN <<>> ELSE <<x>> \o Repeat(x, n - 1)

\* the occurrences of the whole catalog in week widx, in catalog order
RECURSIVE Occurrences(_, _)
Occurrences(cs, widx) ==
    IF cs = <<>> THEN <<>>
    ELSE Repeat(Job(Head(cs)), occurrencesInWeek(Head(cs), widx))
         \o Occurrences(Tail(cs), widx)

IsQuarterlyJob(j) == j.isQuarterly
IsIndividualJob(j) == ~j.isQuarterly

\* a fresh week numbered from zero
EmptyWeekZeroBased(widx) ==
    [week |-> widx, assignments |-> <<>>,
     loads |-> [p \in PSet |-> 0], counts |-> [p \in PSet |-> 0]]

\* lines 167-172
EmptyWeek(widx) ==
    [week |-> widx + 1, assignments |-> <<>>,
     loads |-> [p \in PSet |-> 0], counts |-> [p \in PSet |-> 0]]

Holds(wk, person, choreId) ==
    \E i \in 1..Len(wk.assignments) :
        wk.assignments[i].person = person /\ wk.assignments[i].choreId = choreId

Tuple(person, job) ==
    [person |-> person, choreId |-> job.choreId, choreName |-> job.choreName,
     area |-> job.area, weight |-> job.weight]

\* a push that leaves both maps alone
AssignListOnly(wk, person, job) ==
    [wk EXCEPT !.assignments = Append(@, Tuple(person, job))]

\* push one tuple and update both maps (lines 192-194 and 228-230)
Assign(wk, person, job) ==
    [wk EXCEPT !.assignments = Append(@, Tuple(person, job)),
               !.loads[person] = @ + job.weight,
               !.counts[person] = @ + 1]

\* the value part of an item that holds no object
NoObject ==
    [people |-> <<>>, chores |-> <<>>, minChores |-> 0, maxChores |-> 0,
     avoidRepeats |-> FALSE, noDupPerWeek |-> FALSE, cycleWeeks |-> 0,
     cycleStart |-> ""]

\* the people and chores states hold the arrays of the module constants
ConstRefs == [people |-> "const", chores |-> "const"]

\* getItem of a key that has no item: null
NoItem   == [kind |-> "null", valid |-> {}, value |-> NoObject]
NoRender == "not rendered"
\* no setItem has happened
NoWrite  == [done |-> FALSE, loaded |-> FALSE, before |-> NoItem, text |-> NoItem]

\* the state outside the weeks callback, at rest
ShellIdle ==
    /\ lastOp = "none"
    /\ steps = 0
    /\ db = <<>>
    /\ inflight = {}
    /\ settings = <<>>
    /\ error = Undefined
    /\ refs = ConstRefs
    /\ cycleStart = ""
    /\ storage = NoItem
    /\ loaded = TRUE
    /\ rendered = NoRender
    /\ effects = <<>>
    /\ firstWrite = NoWrite

InitFrom(S) ==
    /\ \E sc \in S :
        /\ people = sc.people
        /\ chores = sc.chores
        /\ minChores = sc.minChores
        /\ maxChores = sc.maxChores
        /\ avoidRepeats = sc.avoidRepeats
        /\ noDupPerWeek = sc.noDupPerWeek
        /\ cycleWeeks = sc.cycleWeeks
    /\ people0 = people
    /\ chores0 = chores
    /\ pc = "enter"
    /\ w = 0
    /\ week = EmptyWeek(0)
    /\ jobs = <<>>
    /\ quarterly = <<>>
    /\ qi = 1 /\ pi = 1 /\ ji = 1
    /\ lastAssignee = [c \in ChoreIds |-> Undefined]
    /\ changed = FALSE
    /\ guard = 0
    /\ result = <<>>
    /\ outcome = "running"
    /\ eligibleLog = {}
    /\ prevResult = NoResult
    /\ ShellIdle

Init == InitFrom(Scenarios)

\* the scenarios that are computed twice: those of at most one chore
RerunScenarios == {sc \in SmallScenarios : Len(sc.chores) <= 1}

InitRerun == InitFrom(RerunScenarios)

\* every scenario, and the three housemates of DonorScenarios
InitDonors == InitFrom(Scenarios \cup DonorScenarios)

\* lines 159-164: the entry guard, P, result and lastAssignee
Enter ==
    /\ pc = "enter"
    /\ IF Len(people) = 0 \/ Len(chores) = 0
       THEN /\ pc' = "done"
            /\ outcome' = "returned"
       ELSE /\ pc' = "loop"
            /\ outcome' = outcome
    /\ result' = <<>>
    /\ w' = 0
    /\ lastAssignee' = [c \in ChoreIds |-> Undefined]
    /\ UNCHANGED <<people, chores, inputs, shell, week, jobs, quarterly, qi, pi, ji,
                   changed, guard, eligibleLog, prevResult>>

\* lines 166-186: a fresh WeekAssignment and the occurrence lists of week w
StartWeek ==
    /\ pc = "loop"
    /\ w < cycleWeeks
    /\ week' = EmptyWeek(w)
    /\ jobs' = SelectSeq(Occurrences(chores, w), IsIndividualJob)
    /\ quarterly' = SelectSeq(Occurrences(chores, w), IsQuarterlyJob)
    /\ qi' = 1 /\ pi' = 1 /\ ji' = 1
    /\ pc' = "group"
    /\ UNCHANGED <<people, chores, inputs, shell, w, lastAssignee, changed, guard,
                   result, outcome, eligibleLog, prevResult>>

\* line 191: the defensive duplicate check of the group stage
GroupSkips(wk, person, q) == noDupPerWeek /\ Holds(wk, person, q.choreId)

\* lines 189-197: one iteration of the inner loop of the group stage
GroupAssign ==
    /\ pc = "group"
    /\ qi <= Len(quarterly)
    /\ LET q == quarterly[qi]
           person == P[pi]
       IN  IF GroupSkips(week, person, q)
           THEN UNCHANGED <<week, lastAssignee>>
           ELSE /\ week' = Assign(week, person, q)
                /\ lastAssignee' = [lastAssignee EXCEPT ![q.choreId] = Recorded(person)]
    /\ IF pi < Len(P)
       THEN pi' = pi + 1 /\ qi' = qi
       ELSE pi' = 1 /\ qi' = qi + 1
    /\ UNCHANGED <<people, chores, inputs, shell, pc, w, jobs, quarterly, ji, changed,
                   guard, result, outcome, eligibleLog, prevResult>>

\* the index set of the heaviest jobs among the indices S of js
Heaviest(js, S) == {i \in S : \A k \in S : js[i].weight >= js[k].weight}

\* lines 200-203: every order jobs.sort can leave: descending weight, and any
\* order among jobs of one weight, which uid (Date.now) decides
RECURSIVE SortedFrom(_, _)
SortedFrom(js, S) ==
    IF S = {} THEN {<<>>}
    ELSE UNION {{<<js[i]>> \o t : t \in SortedFrom(js, S \ {i})} : i \in Heaviest(js, S)}

\* jobs left in catalog order
SortOutcomesUnsorted(js) == {js}

SortOutcomes(js) == SortedFrom(js, 1..Len(js))

\* a sort that works on the catalog array itself: descending weight, stable
RECURSIVE CatalogSortedInPlace(_)
CatalogSortedInPlace(cs) ==
    IF cs = <<>> THEN <<>>
    ELSE LET top == {i \in 1..Len(cs) : \A k \in 1..Len(cs) : cs[i].weight >= cs[k].weight}
             i == CHOOSE i \in top : \A k \in top : i <= k
         IN  <<cs[i]>> \o CatalogSortedInPlace(SubSeq(cs, 1, i - 1) \o SubSeq(cs, i + 1, Len(cs)))

\* lines 176-203: jobs is a fresh array of fresh objects, sorting it leaves the catalog alone
CatalogAfterSort(cs) == cs

\* line 160: P is a mapped copy, the roster is only read
RosterAfterRun(ps) == ps

\* lines 200-203: jobs.sort
SortJobs ==
    /\ pc = "group"
    /\ qi > Len(quarterly)
    /\ jobs' \in SortOutcomes(jobs)
    /\ chores' = CatalogAfterSort(chores)
    /\ people' = RosterAfterRun(people)
    /\ ji' = 1
    /\ pc' = "greedy"
    /\ UNCHANGED <<inputs, shell, w, week, quarterly, qi, pi, lastAssignee, changed,
                   guard, result, outcome, eligibleLog, prevResult>>

\* a maximum filter that lets people at the maximum through
BelowMaxInclusive(wk) == SelectSeq(P, LAMBDA p : wk.counts[p] <= maxChores)

\* line 207: people who have not hit the maximum
BelowMax(wk) == SelectSeq(P, LAMBDA p : wk.counts[p] < maxChores)

\* a candidate set without the repeat-avoidance filter
AfterRepeatFilterOff(wk, job) == BelowMax(wk)

\* a repeat-avoidance filter without its fallback
AfterRepeatFilterNoFallback(wk, job) ==
    IF avoidRepeats /\ Truthy(lastAssignee[job.choreId])
    THEN SelectSeq(BelowMax(wk), LAMBDA p : Recorded(p) # lastAssignee[job.choreId])
    ELSE BelowMax(wk)

\* lines 208-211: the repeat-avoidance filter and its fallback
AfterRepeatFilter(wk, job) ==
    IF avoidRepeats /\ Truthy(lastAssignee[job.choreId])
    THEN LET kept == SelectSeq(BelowMax(wk), LAMBDA p : Recorded(p) # lastAssignee[job.choreId])
         IN  IF Len(kept) = 0 THEN BelowMax(wk) ELSE kept
    ELSE BelowMax(wk)

\* a candidate set without the duplicate filter
CandidatesUnfiltered(wk, job) == AfterRepeatFilter(wk, job)

\* line 214: the duplicate filter
Candidates(wk, job) ==
    SelectSeq(AfterRepeatFilter(wk, job),
              LAMBDA p : ~(noDupPerWeek /\ Holds(wk, p, job.choreId)))

\* a comparator that looks at the load first and at the count among equal loads
BeforeLoadFirst(wk, p1, p2) ==
    \/ wk.loads[p1] < wk.loads[p2]
    \/ wk.loads[p1] = wk.loads[p2] /\ wk.counts[p1] < wk.counts[p2]

\* lines 219-225: the comparator without its uid term
Before(wk, p1, p2) ==
    \/ wk.counts[p1] < wk.counts[p2]
    \/ wk.counts[p1] = wk.counts[p2] /\ wk.loads[p1] < wk.loads[p2]

\* lines 219-227: the people candidates[0] can be after the sort: nobody sorts
\* before them, and uid (Date.now) orders those who tie on count and load
ChosenOutcomes(wk, cands) ==
    {p \in Range(cands) : \A q \in Range(cands) : ~Before(wk, q, p)}

\* the people who could have taken the job: below the maximum and not holding it
Eligible(wk, job) ==
    {p \in PSet : wk.counts[p] < maxChores /\ ~Holds(wk, p, job.choreId)}

\* lines 205-232: one iteration of the greedy loop
GreedyAssign ==
    /\ pc = "greedy"
    /\ ji <= Len(jobs)
    /\ LET job == jobs[ji]
           candidates == Candidates(week, job)
       IN  IF Len(candidates) = 0
           THEN UNCHANGED <<week, lastAssignee, eligibleLog>>
           ELSE \E chosen \in ChosenOutcomes(week, candidates) :
                    /\ week' = Assign(week, chosen, job)
                    /\ lastAssignee' = [lastAssignee EXCEPT ![job.choreId] = Recorded(chosen)]
                    /\ eligibleLog' = eligibleLog \cup
                           {<<w + 1, job.choreId, Eligible(week, job)>>}
    /\ ji' = ji + 1
    /\ UNCHANGED <<people, chores, inputs, shell, pc, w, jobs, quarterly, qi, pi,
                   changed, guard, result, outcome, prevResult>>

\* lines 241-242: the greedy loop is over, the repair loop is initialised
StartRepair ==
    /\ pc = "greedy"
    /\ ji > Len(jobs)
    /\ changed' = TRUE
    /\ guard' = 0
    /\ pc' = "repair"
    /\ UNCHANGED <<people, chores, inputs, shell, w, week, jobs, quarterly, qi, pi, ji,
                   lastAssignee, result, outcome, eligibleLog, prevResult>>

\* a canMove that lets every tuple move
canMoveAnything(a) == TRUE

\* lines 235-239: quarterly tuples stay where they are
canMove(a) ==
    LET hits == {i \in 1..Len(chores) : chores[i].id = a.choreId}
    IN  /\ hits # {}
        /\ LET first == CHOOSE i \in hits : \A k \in hits : i <= k
           IN  chores[first].freq # "quarterly"

\* a needy filter that also takes people who are exactly at the minimum
BelowInclusive(wk) == SelectSeq(P, LAMBDA p : wk.counts[p] <= minChores)

\* a needy filter that compares with the maximum
BelowUsesMax(wk) == SelectSeq(P, LAMBDA p : wk.counts[p] < maxChores)

\* lines 245-246
Below(wk) == SelectSeq(P, LAMBDA p : wk.counts[p] < minChores)

\* a donor filter that wants two tuples more than the minimum
AboveByTwo(wk) == SelectSeq(P, LAMBDA p : wk.counts[p] > minChores + 1)

\* line 246, before the sort
AboveUnsorted(wk) == SelectSeq(P, LAMBDA p : wk.counts[p] > minChores)

\* the stable sort of line 246: descending count, roster order among equals
RECURSIVE SortByCountDesc(_, _)
SortByCountDesc(wk, s) ==
    IF s = <<>> THEN <<>>
    ELSE LET top == {i \in 1..Len(s) : \A k \in 1..Len(s) : wk.counts[s[i]] >= wk.counts[s[k]]}
             i == CHOOSE i \in top : \A k \in top : i <= k
         IN  <<s[i]>> \o SortByCountDesc(wk, SubSeq(s, 1, i - 1) \o SubSeq(s, i + 1, Len(s)))

\* a donor list that is left in roster order
AboveRosterOrder(wk) == AboveUnsorted(wk)

Above(wk) == SortByCountDesc(wk, AboveUnsorted(wk))

\* a movable filter that does not ask canMove
MovableIgnoresCadence(wk, donor, needy) ==
    {i \in 1..Len(wk.assignments) :
        /\ wk.assignments[i].person = donor
        /\ (~noDupPerWeek \/ ~Holds(wk, needy, wk.assignments[i].choreId))}

\* lines 251-252: indices of the donor's tuples that may go to needy
Movable(wk, donor, needy) ==
    {i \in 1..Len(wk.assignments) :
        /\ wk.assignments[i].person = donor
        /\ canMove(wk.assignments[i])
        /\ (~noDupPerWeek \/ ~Holds(wk, needy, wk.assignments[i].choreId))}

\* a choice of the heaviest movable tuple
TakeHeaviest(wk, S) ==
    CHOOSE i \in S : \A k \in S :
        \/ wk.assignments[i].weight > wk.assignments[k].weight
        \/ wk.assignments[i].weight = wk.assignments[k].weight /\ i <= k

\* lines 253-255: the stable sort by weight puts the first lightest tuple in front
Take(wk, S) ==
    CHOOSE i \in S : \A k \in S :
        \/ wk.assignments[i].weight < wk.assignments[k].weight
        \/ wk.assignments[i].weight = wk.assignments[k].weight /\ i <= k

\* lines 249-267: the first (needy, donor) pair, in loop order, with a movable tuple
MovePairs(wk) ==
    {<<b, a>> \in (1..Len(Below(wk))) \X (1..Len(Above(wk))) :
        Movable(wk, Above(wk)[a], Below(wk)[b]) # {}}

FirstPair(wk) ==
    CHOOSE m \in MovePairs(wk) : \A n \in MovePairs(wk) :
        m[1] < n[1] \/ (m[1] = n[1] /\ m[2] <= n[2])

\* a reassignment that forgets the donor's load
ReassignKeepsDonorLoad(wk, i, donor, needy) ==
    [wk EXCEPT !.assignments[i].person = needy,
               !.counts[donor] = @ - 1,
               !.counts[needy] = @ + 1,
               !.loads[needy] = @ + wk.assignments[i].weight]

\* a reassignment that forgets to lower the donor's count
ReassignKeepsDonorCount(wk, i, donor, needy) ==
    [wk EXCEPT !.assignments[i].person = needy,
               !.loads[donor] = @ - wk.assignments[i].weight,
               !.counts[needy] = @ + 1,
               !.loads[needy] = @ + wk.assignments[i].weight]

\* a reassignment that takes the tuple out of the list and pushes it again
ReassignAtEnd(wk, i, donor, needy) ==
    [wk EXCEPT !.assignments =
                   SubSeq(@, 1, i - 1) \o SubSeq(@, i + 1, Len(@))
                       \o <<[@[i] EXCEPT !.person = needy]>>,
               !.counts[donor] = @ - 1,
               !.loads[donor] = @ - wk.assignments[i].weight,
               !.counts[needy] = @ + 1,
               !.loads[needy] = @ + wk.assignments[i].weight]

\* lines 257-261: the reassignment and the update of both maps
Reassign(wk, i, donor, needy) ==
    [wk EXCEPT !.assignments[i].person = needy,
               !.counts[donor] = @ - 1,
               !.loads[donor] = @ - wk.assignments[i].weight,
               !.counts[needy] = @ + 1,
               !.loads[needy] = @ + wk.assignments[i].weight]

\* the week after one round of the repair loop
RepairStep(wk) ==
    IF MovePairs(wk) = {} THEN wk
    ELSE LET needy == Below(wk)[FirstPair(wk)[1]]
             donor == Above(wk)[FirstPair(wk)[2]]
         IN  Reassign(wk, Take(wk, Movable(wk, donor, needy)), donor, needy)

\* a round that never resets changed
ChangedStuck(wk) == TRUE

\* lines 244 and 262: changed is reset at the top of the round and set by a move
ChangedAfter(wk) == MovePairs(wk) # {}

\* lines 243-268: one round of the while loop
RepairRound ==
    /\ pc = "repair"
    /\ changed
    /\ guard < RepairCap
    /\ guard' = guard + 1
    /\ week' = RepairStep(week)
    /\ changed' = ChangedAfter(week)
    /\ UNCHANGED <<people, chores, inputs, shell, pc, w, jobs, quarterly, qi, pi, ji,
                   lastAssignee, result, outcome, eligibleLog, prevResult>>

\* line 243 failing, then line 270: result.push(week) and w++
FinishWeek ==
    /\ pc = "repair"
    /\ ~(changed /\ guard < RepairCap)
    /\ guard' = IF changed THEN guard + 1 ELSE guard
    /\ result' = Append(result, week)
    /\ w' = w + 1
    /\ pc' = "loop"
    /\ UNCHANGED <<people, chores, inputs, shell, week, jobs, quarterly, qi, pi, ji,
                   lastAssignee, changed, outcome, eligibleLog, prevResult>>

\* line 166 failing, then line 273: return result
Return ==
    /\ pc = "loop"
    /\ w >= cycleWeeks
    /\ pc' = "done"
    /\ outcome' = "returned"
    /\ UNCHANGED <<people, chores, inputs, shell, w, week, jobs, quarterly, qi, pi, ji,
                   lastAssignee, changed, guard, result, eligibleLog, prevResult>>

\* lines 158 and 275: React runs the useMemo callback again on the same snapshots
Recompute ==
    /\ pc = "done"
    /\ prevResult = NoResult
    /\ prevResult' = result
    /\ pc' = "enter"
    /\ outcome' = "running"
    /\ eligibleLog' = {}
    /\ UNCHANGED <<people, chores, inputs, shell, w, week, jobs, quarterly, qi, pi, ji,
                   lastAssignee, changed, guard, result>>

Next ==
    \/ Enter
    \/ StartWeek
    \/ GroupAssign
    \/ SortJobs
    \/ GreedyAssign
    \/ StartRepair
    \/ RepairRound
    \/ FinishWeek
    \/ Return

Spec == Init /\ [][Next]_vars

\* the computation on every scenario and on the three-housemate one
SpecDonors == InitDonors /\ [][Next]_vars

NextRerun == Next \/ Recompute

SpecRerun == InitRerun /\ [][NextRerun]_vars

\* the occurrence expansion alone, for any catalog and any week index
InitCadence ==
    /\ chores \in CadenceCatalogs
    /\ w \in 0..MaxWeekIndex
    /\ people = <<"Alice">>
    /\ minChores = 1 /\ maxChores = 1
    /\ avoidRepeats = TRUE /\ noDupPerWeek = TRUE
    /\ cycleWeeks = 1
    /\ people0 = people
    /\ chores0 = chores
    /\ pc = "expand"
    /\ week = EmptyWeek(w)
    /\ jobs = <<>>
    /\ quarterly = <<>>
    /\ qi = 1 /\ pi = 1 /\ ji = 1
    /\ lastAssignee = [c \in ChoreIds |-> Undefined]
    /\ changed = FALSE
    /\ guard = 0
    /\ result = <<>>
    /\ outcome = "running"
    /\ eligibleLog = {}
    /\ prevResult = NoResult
    /\ ShellIdle

\* lines 175-186: occurrencesInWeek for every chore, and the two lists
ExpandWeek ==
    /\ pc = "expand"
    /\ jobs' = SelectSeq(Occurrences(chores, w), IsIndividualJob)
    /\ quarterly' = SelectSeq(Occurrences(chores, w), IsQuarterlyJob)
    /\ pc' = "expanded"
    /\ UNCHANGED <<people, chores, inputs, shell, w, week, qi, pi, ji, lastAssignee,
                   changed, guard, result, outcome, eligibleLog, prevResult>>

NextCadence == ExpandWeek

SpecCadence == InitCadence /\ [][NextCadence]_vars

(* ---------- Edit Chores ---------- *)
\* the variables of the weeks callback
call == <<w, week, jobs, quarterly, qi, pi, ji, lastAssignee, changed, guard,
          result, outcome, eligibleLog, prevResult>>

\* the weeks callback is not running
CallIdle ==
    /\ w = 0
    /\ week = EmptyWeek(0)
    /\ jobs = <<>>
    /\ quarterly = <<>>
    /\ qi = 1 /\ pi = 1 /\ ji = 1
    /\ lastAssignee = [c \in ChoreIds |-> Undefined]
    /\ changed = FALSE
    /\ guard = 0
    /\ result = <<>>
    /\ outcome = "running"
    /\ eligibleLog = {}
    /\ prevResult = NoResult

DEFAULT_MIN == 8
DEFAULT_MAX == 10

DEFAULT_PEOPLE == <<"Loren", "Zach", "Tristyn">>

DefaultChore(id, name, area, weight, freq) ==
    [id |-> id, name |-> name, area |-> area, weight |-> weight, freq |-> freq]

\* lines 57-83
DEFAULT_CHORES ==
    << DefaultChore(1, "Dusting", "Living Room", 3, "weekly"),
       DefaultChore(2, "Coffee table", "Living Room", 1, "weekly"),
       DefaultChore(3, "Side tables", "Living Room", 1, "weekly"),
       DefaultChore(4, "Wipe counters", "Kitchen", 2, "weekly"),
       DefaultChore(5, "Clean sink", "Kitchen", 2, "weekly"),
       DefaultChore(6, "Organizing fridge", "Kitchen", 2, "weekly"),
       DefaultChore(7, "Wipe washer & dryer", "Laundry Room", 2, "weekly"),
       DefaultChore(8, "Clean cat food bowls", "Laundry Room", 1, "weekly"),
       DefaultChore(9, "Sweep stairs", "Stairs", 3, "weekly"),
       DefaultChore(10, "Clean windows", "All Rooms", 5, "monthly"),
       DefaultChore(11, "Wipe doors", "All Rooms", 3, "monthly"),
       DefaultChore(12, "Wipe down trash can", "Laundry", 2, "monthly"),
       DefaultChore(13, "Deep clean fridge", "Kitchen", 4, "monthly"),
       DefaultChore(14, "Organizing cabinets", "Kitchen", 3, "monthly"),
       DefaultChore(15, "Downstairs bathroom", "Bathroom", 4, "monthly"),
       DefaultChore(16, "Clean dishwasher gasket", "Kitchen", 2, "monthly"),
       DefaultChore(17, "Clean dishwasher drain", "Kitchen", 3, "monthly"),
       DefaultChore(18, "Change Filter", "Upstairs", 3, "quarterly"),
       DefaultChore(19, "Clean baseboards", "All Rooms", 4, "quarterly"),
       DefaultChore(20, "Wash curtains", "Living Room", 4, "quarterly") >>

\* lines 46-48
clamp(n, a, b) == Max2(a, IF b <= n THEN b ELSE n)

\* Number(x) || d
OrDefault(n, d) == IF n = 0 THEN d ELSE n

\* Number(x) || 1
OrOne(n) == IF n = 0 THEN 1 ELSE n

\* what the user can have typed into the name field of the new chore
NewChoreNames == {"", "  ", "Mop"}

\* String.prototype.trim on those names
Trim(name) == IF name \in {"", "  "} THEN "" ELSE name

\* what the user can have typed into a weight field
TypedWeights == {0, 2, 9}

\* the in-place edits of lines 460-476: a field and what is typed into it, as
\* the text of the input and as the number Number() makes of it
EditPatches == {[field |-> "name", text |-> "Tidy up", number |-> 0],
                [field |-> "area", text |-> "Attic", number |-> 0],
                [field |-> "weight", text |-> "9", number |-> 9],
                [field |-> "freq", text |-> "quarterly", number |-> 0]}

IdSeq(cs) == [i \in 1..Len(cs) |-> cs[i].id]

MaxOf(S) == CHOOSE x \in S : \A y \in S : x >= y

\* an id taken from the length of the catalog
NextIdByLength(cs) == Len(cs) + 1

\* line 420: Math.max(0, ...chores.map(c => c.id)) + 1
NextId(cs) == MaxOf({0} \cup Range(IdSeq(cs))) + 1

\* lines 460-476: prev.map(x => x.id === id ? { ...x, [field]: value } : x)
Patched(cs, id, patch) ==
    [i \in 1..Len(cs) |->
        IF cs[i].id # id THEN cs[i]
        ELSE CASE patch.field = "name"   -> [cs[i] EXCEPT !.name = patch.text]
               [] patch.field = "area"   -> [cs[i] EXCEPT !.area = patch.text]
               [] patch.field = "weight" -> [cs[i] EXCEPT !.weight = clamp(OrOne(patch.number), 1, 5)]
               [] patch.field = "freq"   -> [cs[i] EXCEPT !.freq = patch.text]]

\* line 486: what the weight input of the new-chore form stores
FormWeight(typed) == clamp(OrDefault(typed, 2), 1, 5)

\* the rows of the list whose buttons and inputs the user reaches for: the
\* first two and the last two
TouchedRows(cs) ==
    {cs[i] : i \in {1, 2, Len(cs) - 1, Len(cs)} \cap (1..Len(cs))}

(* ---------- Supabase variant: initial load and realtime refetches ---------- *)
\* the rows of the chores table at mount
SyncRows == <<Chore(1, "weekly", 1), Chore(2, "monthly", 2)>>

SettingsRow(min, max) == [minChores |-> min, maxChores |-> max]

\* the three tables at mount
SyncTables ==
    [people |-> <<"Alice">>, chores |-> SyncRows,
     settings |-> <<SettingsRow(DEFAULT_MIN, DEFAULT_MAX)>>]

TableNames == {"people", "chores", "settings"}

NoRows == [people |-> <<>>, chores |-> <<>>, settings |-> <<>>]

\* what one insert, update or delete can make of the chores table
TableChanges(rows) ==
    {Append(rows, Chore(NextId(rows), "weekly", 1))}
        \cup {SelectSeq(rows, LAMBDA x : x.id # c.id) : c \in Range(rows)}
        \cup {Patched(rows, c.id, [field |-> "weight", text |-> "3", number |-> 3]) :
                 c \in Range(rows)}

\* what one insert or delete can make of the people table
PeopleChanges(rows) ==
    IF "Bob" \in Range(rows) THEN {SelectSeq(rows, LAMBDA x : x # "Bob")}
    ELSE {Append(rows, "Bob")}

\* what one update can make of the settings table
SettingsChanges(rows) ==
    {[i \in 1..Len(rows) |-> SettingsRow(2, 3)]} \ {rows}

ChangesOf(t, tables) ==
    CASE t = "people"   -> {[tables EXCEPT !.people = x] : x \in PeopleChanges(tables.people)}
      [] t = "chores"   -> {[tables EXCEPT !.chores = x] : x \in TableChanges(tables.chores)}
      [] t = "settings" -> {[tables EXCEPT !.settings = x] : x \in SettingsChanges(tables.settings)}

\* a select of one table: of the initial load, sent at mount, or of a
\* postgres_changes handler, sent when the change event reaches the client
Request(seq, origin, t) ==
    [seq |-> seq, origin |-> origin, table |-> t, sent |-> origin = "load",
     read |-> FALSE, ok |-> TRUE, threw |-> FALSE, done |-> FALSE, data |-> NoRows]

\* the rows a select of table t returns; the settings selects have limit(1)
Selected(t, tables) ==
    CASE t = "people"   -> [NoRows EXCEPT !.people = tables.people]
      [] t = "chores"   -> [NoRows EXCEPT !.chores = tables.chores]
      [] t = "settings" ->
            [NoRows EXCEPT !.settings =
                SubSeq(tables.settings, 1, IF Len(tables.settings) = 0 THEN 0 ELSE 1)]

\* the select has been dealt with: only its outcome is kept
Done(r) == [r EXCEPT !.sent = TRUE, !.read = TRUE, !.done = TRUE, !.data = NoRows]

\* lines 193-245 up to the first await: the effect of the mount has sent the
\* three selects of the initial load and subscribed to the three tables
InitSync ==
    /\ db = SyncTables
    /\ people = <<>>
    /\ chores = <<>>
    /\ settings = <<>>
    /\ error = Undefined
    /\ refs = ConstRefs
    /\ minChores = DEFAULT_MIN /\ maxChores = DEFAULT_MAX
    /\ avoidRepeats = TRUE /\ noDupPerWeek = TRUE
    /\ cycleWeeks = 4
    /\ people0 = people
    /\ chores0 = chores
    /\ pc = "sync"
    /\ CallIdle
    /\ lastOp = "none"
    /\ steps = 0
    /\ inflight = {Request(0, "load", t) : t \in TableNames}
    /\ cycleStart = ""
    /\ storage = NoItem
    /\ loaded = FALSE
    /\ rendered = NoRender
    /\ effects = <<>>
    /\ firstWrite = NoWrite

\* what the steps of the Supabase variant leave alone
syncFrame == <<avoidRepeats, noDupPerWeek, cycleWeeks, people0, chores0, pc, call,
               lastOp, refs, cycleStart, storage, rendered, effects, firstWrite>>

\* a client changes a table: the change event is on its way to this client and
\* no handler has started
TableChange ==
    /\ pc = "sync"
    /\ steps < MaxChanges
    /\ \E t \in TableNames :
        /\ db' \in ChangesOf(t, db)
        /\ inflight' = inflight \cup {Request(steps + 1, "event", t)}
    /\ steps' = steps + 1
    /\ UNCHANGED <<people, chores, minChores, maxChores, settings, error, loaded,
                   syncFrame>>

\* lines 219-220, 227-228, 235-236: the oldest change event that has not been
\* delivered reaches the client, the postgres_changes handler of its table
\* starts and sends its select
HandlerStarts ==
    /\ pc = "sync"
    /\ \E r \in inflight :
        /\ ~r.sent
        /\ \A q \in inflight : ~q.sent => r.seq <= q.seq
        /\ inflight' = (inflight \ {r}) \cup {[r EXCEPT !.sent = TRUE]}
    /\ UNCHANGED <<people, chores, minChores, maxChores, settings, error, loaded,
                   steps, db, syncFrame>>

\* how a select ends: with the rows, with data null, or with a rejected promise
SelectOutcomes == {"rows", "null", "throws"}

\* a select that is on its way ends
SelectRuns ==
    /\ pc = "sync"
    /\ \E r \in inflight, how \in SelectOutcomes :
        /\ r.sent /\ ~r.read
        /\ inflight' = (inflight \ {r}) \cup
              {[r EXCEPT !.read = TRUE, !.ok = (how = "rows"),
                         !.threw = (how = "throws"),
                         !.data = IF how = "rows" THEN Selected(r.table, db)
                                  ELSE NoRows]}
    /\ UNCHANGED <<people, chores, minChores, maxChores, settings, error, loaded,
                   steps, db, syncFrame>>

\* the value the settings state holds as minChores / maxChores
SettingsValue(rows, field, current) ==
    IF Len(rows) = 0 THEN current ELSE rows[1][field]

\* the selects of the initial load, while its Promise.all is pending
LoadPending == {r \in inflight : r.origin = "load" /\ ~r.done}

\* lines 197-205 and 208-210: Promise.all of the initial load resolves
LoadResolves ==
    /\ pc = "sync"
    /\ LoadPending # {}
    /\ LET OfTable(t) == CHOOSE r \in LoadPending : r.table = t
           s == OfTable("settings").data.settings
           row == IF Len(s) = 0
                  THEN <<SettingsRow(DEFAULT_MIN, DEFAULT_MAX)>> ELSE s
       IN  /\ \A r \in LoadPending : r.read /\ ~r.threw
           /\ people' = OfTable("people").data.people
           /\ chores' = OfTable("chores").data.chores
           /\ settings' = row
           /\ minChores' = row[1].minChores
           /\ maxChores' = row[1].maxChores
           /\ inflight' = (inflight \ LoadPending) \cup {Done(r) : r \in LoadPending}
    /\ error' = Undefined
    /\ loaded' = TRUE
    /\ UNCHANGED <<steps, db, syncFrame>>

\* what a rejected select may carry as e?.message: nothing, "" or a text
ThrownMessages == {Undefined, Recorded(""), Recorded("Failed to fetch")}

\* line 207: e?.message || "Failed to load data"
ErrorText(m) == IF Truthy(m) THEN m ELSE Recorded("Failed to load data")

\* lines 206-210: one of the selects of the initial load rejects, and with it
\* Promise.all: the catch block sets error, the finally block ends loading, and
\* what the other selects return is dropped
LoadRejects ==
    /\ pc = "sync"
    /\ \E r \in LoadPending : r.read /\ r.threw
    /\ \E m \in ThrownMessages : error' = ErrorText(m)
    /\ loaded' = TRUE
    /\ inflight' = (inflight \ LoadPending) \cup {Done(r) : r \in LoadPending}
    /\ UNCHANGED <<people, chores, minChores, maxChores, settings, steps, db,
                   syncFrame>>

\* an event select that has returned and has not set the state yet
Answered(r, t) ==
    r.origin = "event" /\ r.table = t /\ r.read /\ ~r.threw /\ ~r.done

\* lines 219-222: the await of the people handler resumes: setPeople(data || [])
SetPeople ==
    /\ pc = "sync"
    /\ \E r \in inflight :
        /\ Answered(r, "people")
        /\ people' = r.data.people
        /\ inflight' = (inflight \ {r}) \cup {Done(r)}
    /\ UNCHANGED <<chores, minChores, maxChores, settings, error, loaded, steps,
                   db, syncFrame>>

\* lines 227-230: the await of the chores handler resumes: setChores(data || [])
SetChores ==
    /\ pc = "sync"
    /\ \E r \in inflight :
        /\ Answered(r, "chores")
        /\ chores' = r.data.chores
        /\ inflight' = (inflight \ {r}) \cup {Done(r)}
    /\ UNCHANGED <<people, minChores, maxChores, settings, error, loaded, steps,
                   db, syncFrame>>

\* lines 235-238: the await of the settings handler resumes:
\* if (data && data[0]) setSettings(data[0])
SetSettings ==
    /\ pc = "sync"
    /\ \E r \in inflight :
        /\ Answered(r, "settings")
        /\ settings' = IF Len(r.data.settings) = 0 THEN settings ELSE r.data.settings
        /\ minChores' = SettingsValue(r.data.settings, "minChores", minChores)
        /\ maxChores' = SettingsValue(r.data.settings, "maxChores", maxChores)
        /\ inflight' = (inflight \ {r}) \cup {Done(r)}
    /\ UNCHANGED <<people, chores, error, loaded, steps, db, syncFrame>>

\* lines 220, 228, 236: the await of a handler throws: the handler ends and
\* sets no state
HandlerRejects ==
    /\ pc = "sync"
    /\ \E r \in inflight :
        /\ r.origin = "event" /\ r.read /\ r.threw /\ ~r.done
        /\ inflight' = (inflight \ {r}) \cup {Done(r)}
    /\ UNCHANGED <<people, chores, minChores, maxChores, settings, error, loaded,
                   steps, db, syncFrame>>

NextSync ==
    TableChange \/ HandlerStarts \/ SelectRuns \/ LoadResolves \/ LoadRejects
        \/ SetPeople \/ SetChores \/ SetSettings \/ HandlerRejects

SpecSync == InitSync /\ [][NextSync]_vars

(* ------------------------------ properties ----------------------------- *)
TuplesOf(wk, p) == SelectSeq(wk.assignments, LAMBDA a : a.person = p)

IsQuarterlyTuple(a) ==
    \E c \in Range(chores) : c.id = a.choreId /\ c.freq = "quarterly"

QuarterlyTuplesOf(wk, p) ==
    SelectSeq(wk.assignments, LAMBDA a : a.person = p /\ IsQuarterlyTuple(a))

RECURSIVE SumOver(_, _)
SumOver(f, S) ==
    IF S = {} THEN 0
    ELSE LET x == CHOOSE x \in S : TRUE IN f[x] + SumOver(f, S \ {x})

Aggregated(wk) ==
    /\ \A p \in PSet :
        /\ wk.counts[p] = Len(TuplesOf(wk, p))
        /\ wk.loads[p] = SumWeights(TuplesOf(wk, p))
    /\ SumOver(wk.counts, PSet) = Len(wk.assignments)
    /\ SumOver(wk.loads, PSet) = SumWeights(wk.assignments)

\* the greedy stage of the week is over and the repair pass has not started
AfterGreedy == pc = "repair" /\ guard = 0

\* the last round of the repair loop moved a tuple
JustMoved == pc = "repair" /\ guard >= 1 /\ changed

\* C1: counts and loads are the aggregation of the assignment list after every
\* step of the group stage, the greedy stage and the repair pass, and in every
\* WeekAssignment of the result; the sums over people are the length and the
\* total weight of the list.
C1_CountsAndLoadsAggregate ==
    /\ Aggregated(week)
    /\ \A k \in 1..Len(result) : Aggregated(result[k])

\* C1 witness: a repair move happened in a week that also has group tuples
\* and greedy tuples
C1_Witness ==
    /\ JustMoved
    /\ Len(quarterly) > 0
    /\ Len(week.assignments) > Len(quarterly) * Len(P)

\* C2 as stated: right after the greedy stage nobody is above maxChores
C2_MaxAfterGreedy ==
    AfterGreedy => \A p \in PSet : week.counts[p] <= maxChores

\* C2 amended: right after the greedy stage nobody's count exceeds the larger
\* of maxChores and the number of quarterly tuples the group stage gave them
C2_MaxOrGroupAfterGreedy ==
    AfterGreedy =>
        \A p \in PSet :
            week.counts[p] <= Max2(maxChores, Len(QuarterlyTuplesOf(week, p)))

\* C2 witness: after the greedy stage somebody sits exactly at a positive
\* maximum, holding a group tuple and a greedy tuple
C2_Witness ==
    /\ AfterGreedy
    /\ \E p \in PSet :
        /\ week.counts[p] = maxChores
        /\ Len(QuarterlyTuplesOf(week, p)) > 0
        /\ Len(TuplesOf(week, p)) > Len(QuarterlyTuplesOf(week, p))

NumBelow(wk) == Cardinality({p \in PSet : wk.counts[p] < minChores})
NumAbove(wk) == Cardinality({p \in PSet : wk.counts[p] > minChores})

\* a step of the repair loop that reassigned a tuple
RepairMove == pc = "repair" /\ week' # week

\* C3 as stated: every repair move strictly decreases the number of people
\* below minChores or the number of people above it
C3_MoveDecreasesBelowOrAbove ==
    [][RepairMove => (NumBelow(week') < NumBelow(week) \/ NumAbove(week') < NumAbove(week))]_vars

\* C3 amended: a repair move never increases the number of people below
\* minChores nor the number above it, strictly decreases one of them when the
\* receiver was one short of minChores or the donor one over it, and changes
\* neither when the receiver was two or more short and the donor two or more over
C3_MoveNeverIncreases ==
    [][RepairMove =>
        /\ NumBelow(week') <= NumBelow(week)
        /\ NumAbove(week') <= NumAbove(week)
        /\ (\E p \in PSet :
               \/ week'.counts[p] = week.counts[p] + 1 /\ week.counts[p] = minChores - 1
               \/ week'.counts[p] = week.counts[p] - 1 /\ week.counts[p] = minChores + 1)
           => (NumBelow(week') < NumBelow(week) \/ NumAbove(week') < NumAbove(week))
        /\ (\E p, q \in PSet :
               /\ week'.counts[p] = week.counts[p] + 1 /\ week.counts[p] <= minChores - 2
               /\ week'.counts[q] = week.counts[q] - 1 /\ week.counts[q] >= minChores + 2)
           => (NumBelow(week') = NumBelow(week) /\ NumAbove(week') = NumAbove(week))]_vars

\* C3 witness: a move has just left the receiver still below minChores and the
\* donor still above it
C3_Witness ==
    /\ JustMoved
    /\ NumBelow(week) > 0
    /\ NumAbove(week) > 0

\* C4 as stated: a second computation on the same snapshots returns the same
\* CycleResult as the first
C4_SameResultOnRecompute ==
    (pc = "done" /\ prevResult # NoResult) => result = prevResult

DueQuarterly(widx) ==
    {c \in Range(chores) : c.freq = "quarterly" /\ occurrencesInWeek(c, widx) = 1}

FannedOut(wk, widx) ==
    \A c \in DueQuarterly(widx) : \A p \in PSet :
        Cardinality({i \in 1..Len(wk.assignments) :
            wk.assignments[i].choreId = c.id /\ wk.assignments[i].person = p}) = 1

\* C5: for every quarterly chore due in a week, the week's list holds exactly
\* one tuple of that chore for every person of the roster, from the end of the
\* greedy stage, through every repair round, to the returned WeekAssignment
C5_GroupFanOut ==
    /\ pc = "repair" => FannedOut(week, w)
    /\ \A k \in 1..Len(result) : FannedOut(result[k], k - 1)

\* C5 witness: the repair pass has moved a tuple in a week with a quarterly
\* chore and has come to rest
C5_Witness ==
    /\ pc = "repair" /\ guard >= 2 /\ ~changed
    /\ DueQuarterly(w) # {}

InvalidInput ==
    Len(people0) = 0 \/ Len(chores0) = 0 \/ maxChores < minChores

\* C6 as stated: on an empty roster, an empty catalog or maxChores < minChores
\* the call computes no week and ends with an InvalidInput error
C6_RejectsInvalidInput ==
    InvalidInput =>
        /\ pc \in {"enter", "done"}
        /\ pc = "done" => (outcome = "InvalidInput" /\ result = <<>>)

HoldersOf(wk, choreId) ==
    {wk.assignments[i].person : i \in {k \in 1..Len(wk.assignments) :
                                          wk.assignments[k].choreId = choreId}}

\* the chore was placed in week number wn while somebody other than p was eligible
PlacedWithAlternative(wn, choreId, p) ==
    \E e \in eligibleLog : e[1] = wn /\ e[2] = choreId /\ e[3] \ {p} # {}

\* C7 as stated: with avoidRepeats on, in the returned result a weekly chore is
\* not held by the same person in two consecutive weeks when another person was
\* eligible at the time the chore was placed in the second week
C7_NoImmediateRepeat ==
    (pc = "done" /\ avoidRepeats) =>
        \A k \in 1..(Len(result) - 1) : \A c \in Range(chores) :
            c.freq = "weekly" =>
                \A p \in HoldersOf(result[k], c.id) \cap HoldersOf(result[k + 1], c.id) :
                    ~PlacedWithAlternative(k + 1, c.id, p)

NoDuplicates(wk) ==
    \A i, k \in 1..Len(wk.assignments) :
        (i # k /\ wk.assignments[i].choreId = wk.assignments[k].choreId)
            => wk.assignments[i].person # wk.assignments[k].person

\* C8: with noDupPerWeek on, nobody holds two tuples of one chore id in a week,
\* after every group, greedy and repair step and in every returned week
C8_NoDuplicatePerWeek ==
    noDupPerWeek =>
        /\ NoDuplicates(week)
        /\ \A k \in 1..Len(result) : NoDuplicates(result[k])

\* C8 witness: with noDupPerWeek on, both occurrences of a chore are placed
\* and the repair pass has moved a tuple
C8_Witness ==
    /\ noDupPerWeek
    /\ JustMoved
    /\ \E i, k \in 1..Len(week.assignments) :
           i # k /\ week.assignments[i].choreId = week.assignments[k].choreId

\* C9: on a non-empty roster and catalog the call never ends in an error, the
\* weeks pushed so far are numbered 1, 2, ... in order, and the call returns
\* exactly cycleWeeks of them, whatever minChores and maxChores are
C9_ReturnsEveryWeek ==
    (Len(people0) > 0 /\ Len(chores0) > 0) =>
        /\ outcome \in {"running", "returned"}
        /\ Len(result) <= cycleWeeks
        /\ \A k \in 1..Len(result) : result[k].week = k
        /\ pc = "done" =>
            /\ outcome = "returned"
            /\ Len(result) = cycleWeeks
            /\ \A k \in 1..Len(result) : result[k].week = k

\* C9 witness: a two-week result in which somebody is left under minChores
\* and somebody is over maxChores
C9_Witness ==
    /\ pc = "done" /\ Len(result) = 2
    /\ \E k \in 1..2 : \E p, q \in PSet :
           result[k].counts[p] < minChores /\ result[k].counts[q] > maxChores

\* C10: the roster and the catalog are, at every step and after the return,
\* the snapshots that were passed in
C10_InputsUntouched ==
    /\ people = people0
    /\ chores = chores0

\* C10 witness: the call has returned a week whose tuples are not in catalog
\* order, so that the sort did reorder the jobs
C10_Witness ==
    /\ pc = "done"
    /\ \E k \in 1..Len(result) : \E i, j \in 1..Len(result[k].assignments) :
           i < j /\ result[k].assignments[i].choreId > result[k].assignments[j].choreId
\* lines 175-186: the individual occurrences the expansion puts in jobs for week widx
IndividualOccurrences(widx) == SelectSeq(Occurrences(chores, widx), IsIndividualJob)

NonGroupTuples(wk) == SelectSeq(wk.assignments, LAMBDA a : ~IsQuarterlyTuple(a))

\* lines 25-30: the dropped-occurrence count a consumer can read from a
\* WeekAssignment; the type has the fields week, assignments, loads and counts only
DroppedRecorded(wk) == IF "dropped" \in DOMAIN wk THEN wk.dropped ELSE 0

\* C11 as stated: in every returned week, the number of expanded individual
\* occurrences is the number of non-group tuples plus the dropped-occurrence
\* count the week records
C11_DroppedOccurrencesCounted ==
    \A k \in 1..Len(result) :
        Len(IndividualOccurrences(k - 1))
            = Len(NonGroupTuples(result[k])) + DroppedRecorded(result[k])
\* the expansion of the week has run
Expanded == pc = "expanded"

\* how many occurrences of chore id the expansion produced, in both lists
TimesExpanded(id) ==
    Cardinality({i \in 1..Len(jobs) : jobs[i].choreId = id})
        + Cardinality({i \in 1..Len(quarterly) : quarterly[i].choreId = id})

\* the zero-based rank of the chore at catalog position i among the monthly chores
MonthlyRank(i) == Cardinality({k \in 1..(i - 1) : chores[k].freq = "monthly"})

\* C12 as stated: a monthly chore has one occurrence in the weeks w with
\* w mod 4 = r mod 4, r its zero-based rank among the monthly chores in catalog
\* order, and none in the other weeks
C12_MonthlyDueByRank ==
    Expanded =>
        \A i \in 1..Len(chores) :
            chores[i].freq = "monthly" =>
                TimesExpanded(chores[i].id) = IF w % 4 = MonthlyRank(i) % 4 THEN 1 ELSE 0

\* the four week indices of the window that holds widx
WindowOf(widx) == (4 * (widx \div 4))..(4 * (widx \div 4) + 3)

\* C13: for every monthly chore, occurrencesInWeek is 1 for exactly one week
\* of the window 4k..4k+3 that holds the week index and 0 for the other three
C13_MonthlyOncePerWindow ==
    Expanded =>
        \A c \in Range(chores) :
            c.freq = "monthly" =>
                /\ TimesExpanded(c.id) = occurrencesInWeek(c, w)
                /\ \A v \in WindowOf(w) : occurrencesInWeek(c, v) \in {0, 1}
                /\ Cardinality({v \in WindowOf(w) : occurrencesInWeek(c, v) = 1}) = 1

\* C13 witness: a monthly chore with an id above 4 is expanded once in a
\* window after the first
C13_Witness ==
    /\ Expanded
    /\ w >= 4
    /\ \E c \in Range(chores) :
           c.freq = "monthly" /\ c.id > 4 /\ TimesExpanded(c.id) = 1

\* C14: one occurrence of a weekly chore and two of a twice-weekly chore in
\* every week, one of a biweekly chore in even weeks and none in odd weeks,
\* and none, with no error, for a cadence value that is no FreqKey
C14_FixedCadences ==
    Expanded =>
        /\ outcome = "running"
        /\ \A c \in Range(chores) :
            /\ c.freq = "weekly" => TimesExpanded(c.id) = 1
            /\ c.freq = "twice_week" => TimesExpanded(c.id) = 2
            /\ c.freq = "every_2_weeks" => TimesExpanded(c.id) = IF w % 2 = 0 THEN 1 ELSE 0
            /\ c.freq \notin FreqKeys => TimesExpanded(c.id) = 0

\* C14 witness: an odd week of a catalog with a weekly, a twice-weekly and a
\* biweekly chore and one of an unknown cadence
C14_Witness ==
    /\ Expanded
    /\ w % 2 = 1
    /\ \A f \in {"weekly", "twice_week", "every_2_weeks", "daily"} :
           \E c \in Range(chores) : c.freq = f

FreqOf(id) == {c.freq : c \in {d \in Range(chores) : d.id = id}}

\* C15: a quarterly chore has one occurrence in the weeks w with w mod 12 = 0
\* and none in any other week; the group list holds occurrences of quarterly
\* chores only and the individual list holds none of them
C15_QuarterlyEveryTwelfth ==
    Expanded =>
        /\ \A c \in Range(chores) :
            c.freq = "quarterly" =>
                TimesExpanded(c.id) = IF w % 12 = 0 THEN 1 ELSE 0
        /\ \A i \in 1..Len(quarterly) : FreqOf(quarterly[i].choreId) = {"quarterly"}
        /\ \A i \in 1..Len(jobs) : "quarterly" \notin FreqOf(jobs[i].choreId)

\* C15 witness: a week index of 12 or more in which a quarterly chore is in
\* the group list and other chores are in the individual list
C15_Witness ==
    /\ Expanded
    /\ w >= 12
    /\ Len(quarterly) > 0
    /\ Len(jobs) > 0
TuplesOfChore(wk, id) == SelectSeq(wk.assignments, LAMBDA a : a.choreId = id)

\* the example of the specification with both flags on
ExampleRun ==
    /\ people0 = <<"Alice", "Bob", "Cara">>
    /\ chores0 = CatExample
    /\ cycleWeeks = 4
    /\ minChores = 1 /\ maxChores = 2
    /\ avoidRepeats /\ noDupPerWeek

\* C16: in the example, week 1 holds chore 3 once for each of the three people
\* and chores 1 and 2 once each, with two different people, whichever way the
\* ties fall
C16_ExampleWeekOne ==
    (ExampleRun /\ Len(result) >= 1) =>
        /\ result[1].week = 1
        /\ \A p \in PSet :
               Len(SelectSeq(TuplesOfChore(result[1], 3), LAMBDA a : a.person = p)) = 1
        /\ Len(TuplesOfChore(result[1], 3)) = 3
        /\ Len(TuplesOfChore(result[1], 1)) = 1
        /\ Len(TuplesOfChore(result[1], 2)) = 1
        /\ TuplesOfChore(result[1], 1)[1].person # TuplesOfChore(result[1], 2)[1].person

\* C16 witness: the example has returned all four weeks
C16_Witness ==
    /\ ExampleRun
    /\ pc = "done"
    /\ Len(result) = 4

Distance(a, b) == IF a >= b THEN a - b ELSE b - a

\* the total distance of the counts from minChores
Deviation(wk) == SumOver([p \in PSet |-> Distance(wk.counts[p], minChores)], PSet)

\* C17: the repair loop never runs more than RepairCap rounds, and every round
\* that leaves the loop going has moved a tuple, so that twice the rounds run
\* plus the remaining distance of the counts from minChores never exceeds the
\* number of tuples plus minChores for every person: the loop ends by itself
C17_RepairTerminates ==
    pc = "repair" =>
        /\ guard <= RepairCap
        /\ changed =>
            2 * guard + Deviation(week) <= Len(week.assignments) + Len(P) * minChores

\* C17 witness: the loop has ended after a move, with somebody left below a
\* minimum that cannot be reached
C17_Witness ==
    /\ pc = "repair" /\ ~changed /\ guard >= 2
    /\ NumBelow(week) > 0

\* the donor holds nothing that may go to needy
NothingMovable(wk, donor, needy) ==
    \A i \in 1..Len(wk.assignments) :
        wk.assignments[i].person = donor =>
            \/ IsQuarterlyTuple(wk.assignments[i])
            \/ noDupPerWeek /\ Holds(wk, needy, wk.assignments[i].choreId)

\* C18: when the repair loop has ended on a round without a move, nobody is
\* below minChores, or nobody is above it, or no donor holds a tuple that may
\* go to any needy person
C18_RepairEndsAtRest ==
    (pc = "repair" /\ ~changed) =>
        \/ NumBelow(week) = 0
        \/ NumAbove(week) = 0
        \/ \A needy, donor \in PSet :
              (week.counts[needy] < minChores /\ week.counts[donor] > minChores)
                  => NothingMovable(week, donor, needy)

\* C18 witness: the loop has ended before its cap, after a move that brought
\* the last needy person up to minChores
C18_Witness ==
    /\ pc = "repair" /\ ~changed /\ guard < RepairCap
    /\ guard >= 2
    /\ NumBelow(week) = 0

\* a step of the greedy loop that placed the occurrence jobs[ji]
GreedyPlaced == pc = "greedy" /\ ji <= Len(jobs) /\ week' # week

\* the person that step chose
Chosen == lastAssignee'[jobs[ji].choreId][1]

\* C19: with avoidRepeats on, a greedy step gives an occurrence to the recorded
\* last assignee of its chore only when every other person's count is at or
\* above maxChores
C19_RepeatOnlyWhenForced ==
    [][(GreedyPlaced /\ avoidRepeats /\ Recorded(Chosen) = lastAssignee[jobs[ji].choreId])
          => \A p \in PSet \ {Chosen} : week.counts[p] >= maxChores]_vars

\* C19 witness: with avoidRepeats on and more than one person, both occurrences
\* of a chore went to the same person in the greedy stage
C19_Witness ==
    /\ pc = "greedy"
    /\ avoidRepeats
    /\ Len(P) >= 2
    /\ \E i, k \in 1..Len(week.assignments) :
           /\ i < k
           /\ ~IsQuarterlyTuple(week.assignments[i])
           /\ week.assignments[i].choreId = week.assignments[k].choreId
           /\ week.assignments[i].person = week.assignments[k].person

\* C20: every greedy step gives the occurrence to a candidate whose count is
\* minimal among the candidates and whose load is minimal among the candidates
\* of that count
C20_ChosenIsMinimal ==
    [][GreedyPlaced =>
          /\ Chosen \in Range(Candidates(week, jobs[ji]))
          /\ \A q \in Range(Candidates(week, jobs[ji])) :
                \/ week.counts[Chosen] < week.counts[q]
                \/ week.counts[Chosen] = week.counts[q] /\ week.loads[Chosen] <= week.loads[q]]_vars

\* C20 witness: the last greedy step chose a person over somebody of the same
\* count, below maxChores, with a greater load
C20_Witness ==
    /\ pc = "greedy" /\ ji > 1
    /\ Len(week.assignments) > 0
    /\ LET a == week.assignments[Len(week.assignments)]
       IN  /\ a.choreId = jobs[ji - 1].choreId
           /\ ~IsQuarterlyTuple(a)
           /\ \E q \in PSet \ {a.person} :
                  /\ week.counts[q] = week.counts[a.person] - 1
                  /\ week.counts[q] < maxChores
                  /\ week.loads[q] > week.loads[a.person] - a.weight
\* a step of the greedy loop: the occurrence jobs[ji] is placed or dropped
GreedyStep == pc = "greedy" /\ ji <= Len(jobs) /\ ji' = ji + 1

\* the people left for a job after the maximum, the repeat-avoidance step with
\* its fallback, and the duplicate filter
Remaining(wk, job) ==
    LET below == {p \in PSet : wk.counts[p] < maxChores}
        others == {p \in below : Recorded(p) # lastAssignee[job.choreId]}
        afterRepeat == IF avoidRepeats /\ Truthy(lastAssignee[job.choreId]) /\ others # {}
                       THEN others ELSE below
    IN  {p \in afterRepeat : ~(noDupPerWeek /\ Holds(wk, p, job.choreId))}

\* C21: a greedy step leaves the week alone when nobody remains for the
\* occurrence after the maximum, the repeat-avoidance step and the duplicate
\* filter, and otherwise appends exactly one tuple of the occurrence's chore,
\* held by one person of the roster
C21_OneTupleOrNone ==
    [][GreedyStep =>
          IF Remaining(week, jobs[ji]) = {}
          THEN week' = week
          ELSE /\ Len(week'.assignments) = Len(week.assignments) + 1
               /\ SubSeq(week'.assignments, 1, Len(week.assignments)) = week.assignments
               /\ week'.assignments[Len(week'.assignments)].choreId = jobs[ji].choreId
               /\ week'.assignments[Len(week'.assignments)].person \in PSet]_vars

\* C21 witness: the greedy loop is over, it placed some occurrences and dropped
\* others, and somebody is still below maxChores
C21_Witness ==
    /\ pc = "greedy" /\ ji > Len(jobs)
    /\ Len(NonGroupTuples(week)) >= 1
    /\ Len(NonGroupTuples(week)) < Len(jobs)
    /\ \E p \in PSet : week.counts[p] < maxChores

QuarterlyPairs(wk) ==
    {<<wk.assignments[i].person, wk.assignments[i].choreId>> :
        i \in {k \in 1..Len(wk.assignments) : IsQuarterlyTuple(wk.assignments[k])}}

FreqOfTuple(a) == {c.freq : c \in {d \in Range(chores) : d.id = a.choreId}}

\* the tuple was placed once in the week and is no longer with the person the
\* greedy stage gave it to
MovedByRepair(wk, i) ==
    /\ Recorded(wk.assignments[i].person) # lastAssignee[wk.assignments[i].choreId]
    /\ Len(TuplesOfChore(wk, wk.assignments[i].choreId)) = 1

\* C22: a repair move leaves the (person, chore id) pairs of the quarterly
\* chores of the week as they are
C22_QuarterlyStays ==
    [][RepairMove => QuarterlyPairs(week') = QuarterlyPairs(week)]_vars

\* C22 witness: in a week with quarterly tuples the repair pass has moved the
\* tuple of a monthly chore
C22_Witness ==
    /\ pc = "repair"
    /\ QuarterlyPairs(week) # {}
    /\ \E i \in 1..Len(week.assignments) :
           /\ FreqOfTuple(week.assignments[i]) = {"monthly"}
           /\ MovedByRepair(week, i)

\* a round of the repair loop
RepairRoundStep == pc = "repair" /\ pc' = "repair" /\ guard' = guard + 1

\* the tuples whose person the step changed
MovedSet == {i \in 1..Len(week.assignments) :
                week'.assignments[i].person # week.assignments[i].person}

PosOf(p) == CHOOSE i \in 1..Len(people) : people[i] = p

\* some person above minChores holds a tuple that may go to p
CanReceive(wk, p) ==
    \E d \in PSet : wk.counts[d] > minChores /\ Movable(wk, d, p) # {}

\* C23: a round of the repair loop moves at most one tuple; the receiver is the
\* first person in roster order below minChores for whom somebody above
\* minChores holds a movable tuple, the donor has the highest count among those
\* who hold one for that receiver, and the tuple is of minimum weight among
\* the donor's movable tuples. The greedy stage leaves at most one person below
\* minChores whenever it leaves somebody above it (a job excludes at most one
\* person who is under maxChores, so nobody gets more than one tuple ahead of
\* the second-lowest count): a move's receiver is the only person below minChores
C23_MoveOrder ==
    [][RepairRoundStep =>
          /\ Cardinality(MovedSet) <= 1
          /\ \A i \in MovedSet :
                LET donor == week.assignments[i].person
                    needy == week'.assignments[i].person
                IN  /\ week.counts[needy] < minChores
                    /\ week.counts[donor] > minChores
                    /\ \A p \in PSet :
                          (week.counts[p] < minChores /\ PosOf(p) < PosOf(needy))
                              => ~CanReceive(week, p)
                    /\ \A p \in PSet : week.counts[p] < minChores => p = needy
                    /\ \A d \in PSet :
                          (week.counts[d] > minChores /\ Movable(week, d, needy) # {})
                              => week.counts[d] <= week.counts[donor]
                    /\ i \in Movable(week, donor, needy)
                    /\ \A k \in Movable(week, donor, needy) :
                          week.assignments[i].weight <= week.assignments[k].weight]_vars

\* C23 witness: among three people the first round of the repair pass moved a
\* tuple; its donor keeps a heavier tuple that could have been moved, and
\* somebody who precedes the donor in the roster was above minChores with
\* fewer tuples than the donor and held a tuple the receiver could have taken
C23_Witness ==
    /\ JustMoved
    /\ guard = 1
    /\ Len(people) = 3
    /\ \E i, k, j \in 1..Len(week.assignments) :
           LET needy == week.assignments[i].person
               donor == week.assignments[k].person
               other == week.assignments[j].person
           IN  /\ MovedByRepair(week, i)
               /\ ~IsQuarterlyTuple(week.assignments[i])
               /\ week.counts[needy] - 1 < minChores
               /\ Recorded(donor) = lastAssignee[week.assignments[i].choreId]
               /\ ~IsQuarterlyTuple(week.assignments[k])
               /\ week.assignments[k].weight > week.assignments[i].weight
               /\ other \notin {needy, donor}
               /\ PosOf(other) < PosOf(donor)
               /\ week.counts[other] > minChores
               /\ week.counts[other] < week.counts[donor] + 1
               /\ ~IsQuarterlyTuple(week.assignments[j])
               /\ ~Holds(week, needy, week.assignments[j].choreId)

\* quarterly tuples first, then the others in non-increasing weight
Ordered(wk) ==
    \A i, k \in 1..Len(wk.assignments) :
        i < k =>
            /\ IsQuarterlyTuple(wk.assignments[k]) => IsQuarterlyTuple(wk.assignments[i])
            /\ (~IsQuarterlyTuple(wk.assignments[i]) /\ ~IsQuarterlyTuple(wk.assignments[k]))
                   => wk.assignments[i].weight >= wk.assignments[k].weight

\* C24: in the week under construction, at every step, and in every returned
\* week, the quarterly tuples come first and the tuples of the other chores
\* follow in non-increasing order of weight
C24_HeavierFirst ==
    /\ Ordered(week)
    /\ pc = "done" => \A k \in 1..Len(result) : Ordered(result[k])

\* C24 witness: a returned week holds quarterly tuples, and behind them a
\* heavier chore in front of a lighter one that precedes it in the catalog
C24_Witness ==
    /\ pc = "done"
    /\ \E n \in 1..Len(result) :
           /\ QuarterlyPairs(result[n]) # {}
           /\ \E i, k \in 1..Len(result[n].assignments) :
                  /\ i < k
                  /\ ~IsQuarterlyTuple(result[n].assignments[i])
                  /\ result[n].assignments[i].weight > result[n].assignments[k].weight
                  /\ result[n].assignments[i].choreId > result[n].assignments[k].choreId
\* C27: every repair move lowers the total distance of the counts from
\* minChores by exactly 2, and a round that moves nothing finds no possible
\* move and ends the loop: the loop makes at most half the initial distance
\* moves and stops by itself
C27_MoveLowersDeviationByTwo ==
    [][/\ RepairMove => Deviation(week') = Deviation(week) - 2
       /\ (RepairRoundStep /\ week' = week) => (MovePairs(week) = {} /\ ~changed')
       /\ (RepairRoundStep /\ week' # week) => changed']_vars

\* C27 witness: two moves in a row have brought the total distance to zero
C27_Witness ==
    /\ pc = "repair" /\ changed /\ guard >= 2
    /\ Deviation(week) = 0

\* C28: a repair move never takes the receiver above minChores nor the donor
\* below it, so that with minChores <= maxChores nobody is above maxChores
\* after the move who was not above it before
C28_MoveStaysOnItsSide ==
    [][RepairMove =>
          \A p \in PSet :
              /\ week'.counts[p] > week.counts[p] => week'.counts[p] <= minChores
              /\ week'.counts[p] < week.counts[p] => week'.counts[p] >= minChores
              /\ (minChores <= maxChores /\ week'.counts[p] > maxChores)
                     => week.counts[p] > maxChores]_vars

\* C28 witness: with minChores <= maxChores a move has just left both the
\* receiver and the donor exactly at minChores
C28_Witness ==
    /\ JustMoved
    /\ minChores <= maxChores
    /\ \E i \in 1..Len(week.assignments) :
           /\ MovedByRepair(week, i)
           /\ week.counts[week.assignments[i].person] = minChores
           /\ week.counts[lastAssignee[week.assignments[i].choreId][1]] = minChores

\* a week's list without the person fields
WithoutPersons(wk) ==
    [i \in 1..Len(wk.assignments) |->
        <<wk.assignments[i].choreId, wk.assignments[i].choreName,
          wk.assignments[i].area, wk.assignments[i].weight>>]

\* C29: a round of the repair loop leaves the chore ids, names, areas and
\* weights of the week's list, its length and its order as they are, and does
\* not touch lastAssignee
C29_OnlyPersonChanges ==
    [][RepairRoundStep =>
          /\ WithoutPersons(week') = WithoutPersons(week)
          /\ lastAssignee' = lastAssignee]_vars

\* C29 witness: the repair pass has moved a tuple that is not the last of the
\* week's list
C29_Witness ==
    /\ JustMoved
    /\ \E i \in 1..(Len(week.assignments) - 1) :
           MovedByRepair(week, i) /\ ~IsQuarterlyTuple(week.assignments[i])
DistinctIds(cs) == \A i, k \in 1..Len(cs) : i # k => cs[i].id # cs[k].id

\* a catalog operation of the Edit Chores tab
CatalogStep ==
    lastOp' \in {"add", "remove", "edit", "reset"} /\ steps' = steps + 1

\* C25: starting from the default catalog, the ids of the catalog are pairwise
\* distinct before and after every addChore, removeChore, edit and
\* resetDefaults; an edit leaves the ids as they are, and addChore appends a
\* chore whose id no chore of the catalog had
C25_IdsStayUnique ==
    [][CatalogStep =>
          /\ DistinctIds(chores)
          /\ DistinctIds(chores')
          /\ lastOp' = "edit" => IdSeq(chores') = IdSeq(chores)
          /\ lastOp' = "add" =>
                /\ SubSeq(chores', 1, Len(chores)) = chores
                /\ Len(chores') = Len(chores) + 1
                /\ chores'[Len(chores')].id \notin Range(IdSeq(chores))]_vars

\* C25 witness: a chore was added after the chore of the highest id had been
\* removed, and got that id again
C25_Witness ==
    /\ pc = "persist"
    /\ lastOp = "add"
    /\ Len(chores) = Len(DEFAULT_CHORES)
    /\ chores[Len(chores)].id = DEFAULT_CHORES[Len(DEFAULT_CHORES)].id
    /\ chores[Len(chores)].name = "Mop"
\* every select that was sent has set the state
AllApplied == \A r \in inflight : r.done

\* no select has failed
NoneFailed == \A r \in inflight : r.ok

\* C26 as stated, for runs in which no request fails: once every select has
\* set the state, the chores state of the client is the content of the chores
\* table
C26_LocalEqualsDatabase ==
    (pc = "sync" /\ AllApplied /\ NoneFailed) => chores = db.chores

(* ------------------- Persistence: the load and save effects ------------------- *)
\* the keys of the saved object, lines 124-126
PersistFields == {"people", "chores", "minChores", "maxChores", "avoidRepeats",
                  "noDupPerWeek", "cycleWeeks", "cycleStart"}

\* the state of App that the effects read; refs tells which arrays the people
\* and chores states hold, for the Object.is comparisons of React
AppState ==
    [loaded |-> loaded, people |-> people, chores |-> chores,
     minChores |-> minChores, maxChores |-> maxChores,
     avoidRepeats |-> avoidRepeats, noDupPerWeek |-> noDupPerWeek,
     cycleWeeks |-> cycleWeeks, cycleStart |-> cycleStart, refs |-> refs]

\* the state variables of App
app == <<loaded, people, chores, minChores, maxChores, avoidRepeats,
         noDupPerWeek, cycleWeeks, cycleStart, refs>>

\* the setState calls of one effect or handler, applied together
SetState(n) ==
    /\ loaded' = n.loaded
    /\ people' = n.people
    /\ chores' = n.chores
    /\ minChores' = n.minChores
    /\ maxChores' = n.maxChores
    /\ avoidRepeats' = n.avoidRepeats
    /\ noDupPerWeek' = n.noDupPerWeek
    /\ cycleWeeks' = n.cycleWeeks
    /\ cycleStart' = n.cycleStart
    /\ refs' = n.refs

\* an array that is not the one the state holds: every array that JSON.parse
\* or a handler builds is a new one, and a state is only ever compared with
\* the state of the render before it
Fresh(ref) == IF ref = "new1" THEN "new2" ELSE "new1"

\* lines 124-126: the payload object built from the values a render saw
Payload(s) ==
    [people |-> s.people, chores |-> s.chores, minChores |-> s.minChores,
     maxChores |-> s.maxChores, avoidRepeats |-> s.avoidRepeats,
     noDupPerWeek |-> s.noDupPerWeek, cycleWeeks |-> s.cycleWeeks,
     cycleStart |-> s.cycleStart]

\* lines 88-98: the initial values of the useState calls
DefaultPayload ==
    [people |-> DEFAULT_PEOPLE, chores |-> DEFAULT_CHORES,
     minChores |-> DEFAULT_MIN, maxChores |-> DEFAULT_MAX,
     avoidRepeats |-> TRUE, noDupPerWeek |-> TRUE, cycleWeeks |-> 4,
     cycleStart |-> ""]

\* JSON.stringify of a payload: the text of an object whose eight keys all
\* hold a value of the type the load effect asks for
Stringify(p) == [kind |-> "json", valid |-> PersistFields, value |-> p]

\* what an earlier session saved after the user had changed everything
SavedPayload ==
    [people |-> <<"Ann", "Bo">>, chores |-> <<Chore(1, "weekly", 2)>>,
     minChores |-> 2, maxChores |-> 3, avoidRepeats |-> FALSE,
     noDupPerWeek |-> FALSE, cycleWeeks |-> 6, cycleStart |-> "2024-01-01"]

\* the keys of a stored object that hold a value of the expected type: all,
\* none, or all but one
ValidKeySets ==
    {PersistFields, {}} \cup {PersistFields \ {f} : f \in PersistFields}

\* the item under the storage key when the app mounts: none, a text that
\* JSON.parse rejects, what an earlier session saved for the default state, or
\* the text of an object in which the keys of valid hold a value of the
\* expected type and the other keys are missing or of another type
StoredItems ==
    {NoItem, [kind |-> "garbage", valid |-> {}, value |-> NoObject],
     Stringify(DefaultPayload)}
        \cup {[kind |-> "json", valid |-> v, value |-> SavedPayload] :
                 v \in ValidKeySets}

\* lines 105-116: the value the load effect gives to the state of key f
Loaded(raw, f, current) ==
    IF raw.kind = "json" /\ f \in raw.valid THEN raw.value[f] ELSE current

\* lines 108-109: the array of key f that the state holds after the load effect
LoadedRef(raw, f, current) ==
    IF raw.kind = "json" /\ f \in raw.valid THEN Fresh(current) ELSE current

\* line 123: if (!loaded) return, on the loaded value of the render
SaveAlways(s) == TRUE
SaveAllowed(s) == s.loaded

\* what is typed into the number inputs of Settings, as Number() reads it
TypedCycleWeeks == {0, 6, 40}
TypedMinMax == {0, 3, 25}

\* what the date input of the cycle start can hold
PickedDates == {"", "2024-02-05"}

(* the housemates box: the text as a sequence of characters *)
PeopleTexts ==
    { <<"C", "y", ",", " ", "D", "i", " ", "<", "d", ">">>,
      <<"B", "o">>,
      <<" ", ",", " ">> }

\* the names that those texts can spell
Spell(cs) ==
    CASE cs = <<"C", "y">> -> "Cy"
      [] cs = <<"D", "i">> -> "Di"
      [] cs = <<"B", "o">> -> "Bo"

\* String.prototype.split(",")
RECURSIVE SplitComma(_, _)
SplitComma(text, piece) ==
    IF text = <<>> THEN <<piece>>
    ELSE IF Head(text) = ","
         THEN <<piece>> \o SplitComma(Tail(text), <<>>)
         ELSE SplitComma(Tail(text), Append(piece, Head(text)))

\* String.prototype.trim
RECURSIVE TrimLeft(_)
TrimLeft(cs) == IF cs # <<>> /\ Head(cs) = " " THEN TrimLeft(Tail(cs)) ELSE cs

RECURSIVE TrimRight(_)
TrimRight(cs) ==
    IF cs # <<>> /\ cs[Len(cs)] = " "
    THEN TrimRight(SubSeq(cs, 1, Len(cs) - 1)) ELSE cs

TrimText(cs) == TrimRight(TrimLeft(cs))

\* line 508: group 1 of /^(.+?)(?:<([^>]+)>)?$/ on a non-empty piece: the
\* shortest non-empty prefix that is followed by <...> up to the end, or the
\* whole piece
NameGroup(cs) ==
    LET n == Len(cs)
        cuts == {i \in 1..(n - 3) :
                    /\ cs[i + 1] = "<"
                    /\ cs[n] = ">"
                    /\ \A k \in (i + 2)..(n - 1) : cs[k] # ">"}
    IN  IF cuts = {} THEN cs
        ELSE SubSeq(cs, 1, CHOOSE i \in cuts : \A k \in cuts : i <= k)

\* lines 507-510: the names of the parsed housemates
ParsePeople(text) ==
    LET pieces == SplitComma(text, <<>>)
        trimmed == [i \in 1..Len(pieces) |-> TrimText(pieces[i])]
        kept == SelectSeq(trimmed, LAMBDA x : x # <<>>)
    IN  [i \in 1..Len(kept) |-> Spell(TrimText(NameGroup(kept[i])))]

\* the mount render has run with the initial values of the useState calls; its
\* two effects wait in declaration order
InitPersist ==
    /\ storage \in StoredItems
    /\ people = DEFAULT_PEOPLE
    /\ chores = DEFAULT_CHORES
    /\ minChores = DEFAULT_MIN /\ maxChores = DEFAULT_MAX
    /\ avoidRepeats = TRUE /\ noDupPerWeek = TRUE
    /\ cycleWeeks = 4
    /\ cycleStart = ""
    /\ refs = ConstRefs
    /\ loaded = FALSE
    /\ rendered = AppState
    /\ effects = <<"load", "save">>
    /\ firstWrite = NoWrite
    /\ people0 = people
    /\ chores0 = chores
    /\ pc = "persist"
    /\ CallIdle
    /\ lastOp = "none"
    /\ steps = 0
    /\ db = <<>>
    /\ inflight = {}
    /\ settings = <<>>
    /\ error = Undefined

\* lines 103-119: the load effect
LoadEffect ==
    /\ pc = "persist"
    /\ effects # <<>> /\ Head(effects) = "load"
    /\ SetState(
          [loaded |-> TRUE,
           people |-> Loaded(storage, "people", people),
           chores |-> Loaded(storage, "chores", chores),
           minChores |-> Loaded(storage, "minChores", minChores),
           maxChores |-> Loaded(storage, "maxChores", maxChores),
           avoidRepeats |-> Loaded(storage, "avoidRepeats", avoidRepeats),
           noDupPerWeek |-> Loaded(storage, "noDupPerWeek", noDupPerWeek),
           cycleWeeks |-> Loaded(storage, "cycleWeeks", cycleWeeks),
           cycleStart |-> Loaded(storage, "cycleStart", cycleStart),
           refs |-> [people |-> LoadedRef(storage, "people", refs.people),
                     chores |-> LoadedRef(storage, "chores", refs.chores)]])
    /\ effects' = Tail(effects)
    /\ lastOp' = "load"
    /\ UNCHANGED <<people0, chores0, pc, call, steps, db, inflight, settings,
                   error, storage, rendered, firstWrite>>

\* lines 122-128: the save effect, on the values of the render it belongs to
SaveEffect ==
    /\ pc = "persist"
    /\ effects # <<>> /\ Head(effects) = "save"
    /\ IF SaveAllowed(rendered)
       THEN /\ storage' = Stringify(Payload(rendered))
            /\ firstWrite' = IF firstWrite.done THEN firstWrite
                             ELSE [done |-> TRUE, loaded |-> loaded,
                                   before |-> storage, text |-> storage']
            /\ lastOp' = "setItem"
       ELSE /\ UNCHANGED <<storage, firstWrite>>
            /\ lastOp' = "save skipped"
    /\ effects' = Tail(effects)
    /\ UNCHANGED app
    /\ UNCHANGED <<people0, chores0, pc, call, steps, db, inflight, settings,
                   error, rendered>>

\* a state differs from what the last render saw (Object.is on each value)
\* and no effect of the last commit is left: App renders again; one of the
\* dependencies of the save effect (line 128) has changed, the load effect
\* has none (line 119)
Render ==
    /\ pc = "persist"
    /\ effects = <<>>
    /\ rendered # AppState
    /\ rendered' = AppState
    /\ effects' = <<"save">>
    /\ lastOp' = "render"
    /\ UNCHANGED app
    /\ UNCHANGED <<people0, chores0, pc, call, steps, db, inflight, settings,
                   error, storage, firstWrite>>

\* a handler of the last render can run
Interactive == pc = "persist" /\ effects = <<>> /\ rendered = AppState

\* a handler of Settings runs and leaves the state n
Handler(n, op) ==
    /\ Interactive
    /\ steps < MaxEdits
    /\ SetState(n)
    /\ steps' = steps + 1
    /\ lastOp' = op
    /\ UNCHANGED <<people0, chores0, pc, call, db, inflight, settings, error,
                   rendered, effects, firstWrite>>

\* lines 506-513: savePeople
SavePeople ==
    /\ \E text \in PeopleTexts :
          LET parsed == ParsePeople(text)
          IN  IF Len(parsed) # 0
              THEN Handler([AppState EXCEPT !.people = parsed,
                                            !.refs.people = Fresh(refs.people)],
                           "savePeople")
              ELSE Handler(AppState, "savePeople")
    /\ UNCHANGED storage

\* line 541: the cycle start input
PickCycleStart ==
    /\ \E d \in PickedDates : Handler([AppState EXCEPT !.cycleStart = d], "input")
    /\ UNCHANGED storage

\* line 546: the cycle length input
TypeCycleWeeks ==
    /\ \E v \in TypedCycleWeeks :
          Handler([AppState EXCEPT !.cycleWeeks = clamp(OrDefault(v, 4), 1, 12)],
                  "input")
    /\ UNCHANGED storage

\* line 555: the minimum input
TypeMinChores ==
    /\ \E v \in TypedMinMax :
          Handler([AppState EXCEPT
                      !.minChores = clamp(OrDefault(v, DEFAULT_MIN), 1, 20)],
                  "input")
    /\ UNCHANGED storage

\* line 560: the maximum input
TypeMaxChores ==
    /\ \E v \in TypedMinMax :
          Handler([AppState EXCEPT
                      !.maxChores = clamp(OrDefault(v, DEFAULT_MAX), 1, 20)],
                  "input")
    /\ UNCHANGED storage

\* line 564: the avoid repeats checkbox
CheckAvoidRepeats ==
    /\ Handler([AppState EXCEPT !.avoidRepeats = ~avoidRepeats], "input")
    /\ UNCHANGED storage

\* line 568: the no duplicate checkbox
CheckNoDupPerWeek ==
    /\ Handler([AppState EXCEPT !.noDupPerWeek = ~noDupPerWeek], "input")
    /\ UNCHANGED storage

\* lines 515-525: clearAll
ClearAll ==
    /\ Handler(DefaultPayload @@ [loaded |-> loaded, refs |-> ConstRefs], "clear")
    /\ storage' = NoItem

(* the handlers of the Edit Chores tab; setChores gets a new array from each
   of them but resetDefaults, which puts the constant back *)
\* lines 418-424: addChore, on what the form holds after the name and the
\* weight were typed
AddChore ==
    /\ \E name \in NewChoreNames, typed \in TypedWeights :
        /\ Trim(name) # ""
        /\ Handler([AppState EXCEPT
                      !.chores = Append(chores,
                          [id |-> NextId(chores), name |-> name, area |-> "",
                           weight |-> clamp(OrOne(FormWeight(typed)), 1, 5),
                           freq |-> "weekly"]),
                      !.refs.chores = Fresh(refs.chores)], "add")
    /\ UNCHANGED storage

\* lines 425-427: removeChore
RemoveChore ==
    /\ \E c \in TouchedRows(chores) :
        Handler([AppState EXCEPT
                    !.chores = SelectSeq(chores, LAMBDA x : x.id # c.id),
                    !.refs.chores = Fresh(refs.chores)], "remove")
    /\ UNCHANGED storage

\* lines 460-476: the onChange handlers of a catalog row
EditChore ==
    /\ \E c \in TouchedRows(chores), patch \in EditPatches :
        Handler([AppState EXCEPT
                    !.chores = Patched(chores, c.id, patch),
                    !.refs.chores = Fresh(refs.chores)], "edit")
    /\ UNCHANGED storage

\* lines 428-431: resetDefaults
ResetDefaults ==
    /\ Handler([AppState EXCEPT !.chores = DEFAULT_CHORES,
                                !.refs.chores = "const"], "reset")
    /\ UNCHANGED storage

NextPersist ==
    LoadEffect \/ SaveEffect \/ Render \/ SavePeople \/ PickCycleStart
        \/ TypeCycleWeeks \/ TypeMinChores \/ TypeMaxChores
        \/ CheckAvoidRepeats \/ CheckNoDupPerWeek \/ ClearAll
        \/ AddChore \/ RemoveChore \/ EditChore \/ ResetDefaults

SpecPersist == InitPersist /\ [][NextPersist]_vars

\* the first session on the default catalog, no item stored before it: the
\* mount, the load effect, the render with loaded and the first setItem have
\* happened
InitCatalog ==
    /\ people = DEFAULT_PEOPLE
    /\ chores = DEFAULT_CHORES
    /\ minChores = DEFAULT_MIN /\ maxChores = DEFAULT_MAX
    /\ avoidRepeats = TRUE /\ noDupPerWeek = TRUE
    /\ cycleWeeks = 4
    /\ cycleStart = ""
    /\ refs = ConstRefs
    /\ loaded = TRUE
    /\ rendered = AppState
    /\ effects = <<>>
    /\ storage = Stringify(DefaultPayload)
    /\ firstWrite = [done |-> TRUE, loaded |-> TRUE, before |-> NoItem,
                     text |-> Stringify(DefaultPayload)]
    /\ people0 = people
    /\ chores0 = chores
    /\ pc = "persist"
    /\ CallIdle
    /\ lastOp = "setItem"
    /\ steps = 0
    /\ db = <<>>
    /\ inflight = {}
    /\ settings = <<>>
    /\ error = Undefined

\* the Edit Chores tab: its handlers, each followed by the render and the save
\* effect
NextCatalog ==
    AddChore \/ RemoveChore \/ EditChore \/ ResetDefaults \/ Render \/ SaveEffect

SpecCatalog == InitCatalog /\ [][NextCatalog]_vars

\* the item was the text of an object with all eight keys well typed
ValidSaved(item) == item.kind = "json" /\ item.valid = PersistFields

\* C30: no setItem happens while loaded is false, and the first setItem after
\* a mount that found a valid saved object writes the people, chores and
\* settings of that object, not the defaults
C30_FirstWriteKeepsSaved ==
    /\ ~loaded => (~firstWrite.done /\ (pc = "persist" => storage \in StoredItems))
    /\ firstWrite.done =>
          /\ firstWrite.loaded
          /\ ValidSaved(firstWrite.before) =>
                firstWrite.text.value = firstWrite.before.value

\* C30 witness: the first setItem has happened after a mount that found the
\* saved object, and what it wrote is not the defaults
C30_Witness ==
    /\ pc = "persist"
    /\ firstWrite.done
    /\ ValidSaved(firstWrite.before)
    /\ firstWrite.text.value = SavedPayload
    /\ firstWrite.text.value.people # DEFAULT_PEOPLE
    /\ firstWrite.text.value.chores # DEFAULT_CHORES
====
